---- MODULE Spec2Model ----
(***************************************************************************)
(* eqb-request-client (src/src/index.ts): an axios wrapper that injects    *)
(* the access token into every request and, on a TOKEN_EXPIRED error       *)
(* response, renews the token through the refresh token and calls the      *)
(* resolver again.                                                         *)
(*                                                                         *)
(* One step of the model is one callback of the event loop: the            *)
(* synchronous call of resolver, the .then/.catch handler of a transport   *)
(* promise, the .then/.catch handler of the resign POST, and the           *)
(* continuation after `await renewAccessToken()`.  The transport (axios    *)
(* and whatever adapter it runs on) is the environment: in one turn of the *)
(* event loop it settles one or more pending promises, each with any       *)
(* outcome, and their handlers run in any order.  A continuation that a    *)
(* handler schedules (a microtask) runs within the same turn: a promise    *)
(* created while a continuation is waiting to run cannot settle before     *)
(* that continuation has run.  Bodies follow the wire contract of the      *)
(* backend (objects, never null).                                          *)
(***************************************************************************)
EXTENDS Naturals, Integers, FiniteSets, Sequences, TLC

\* ---------------------------------------------------------------- bounds
\* concurrent calls of the public API
NumSends == 2
\* TOKEN_EXPIRED answers the backend gives in all
MaxExpired == 2

Sends == 1..NumSends

\* Access tokens: "" is "nothing stored" (null / empty string), "tok1" is
\* the token stored before the first call, FreshTokens are the tokens the
\* resign endpoint hands out.
FreshTokens == {"tok2", "tok3"}
AccessTokens == {"", "tok1"} \cup FreshTokens
\* a value the caller put under the access-token header key of its own config
CallerToken == "caller"

\* Refresh tokens: "" stands for null / empty (falsy in `!refreshToken`).
RefreshTokens == {"", "rt"}

\* AxiosRequestConfig values the caller passes (method, url, data, headers).
Configs ==
  { [method |-> "get", url |-> "/items", data |-> "none",
     headers |-> [access |-> "", accept |-> "json"]],
    [method |-> "post", url |-> "/items", data |-> "payload",
     headers |-> [access |-> CallerToken, accept |-> "none"]] }

NoConfig == [method |-> "none", url |-> "none", data |-> "none",
             headers |-> [access |-> "", accept |-> "none"]]

\* The methods of eqbClient that take (url, data, config); get, delete, head
\* and options take (url, config), request takes (config).
DataApis == {"post", "put", "patch"}

\* Calls of the public API: the method called and its arguments.  request
\* with a config of its own, delete over a config that names another method
\* and url, put over a config that names another method, url and body.
Calls ==
  { [api |-> "request", url |-> "none", data |-> "none", config |-> cfg] :
      cfg \in {c \in Configs : c.method = "get"} }
  \cup
  { [api |-> "delete", url |-> "/items/1", data |-> "none", config |-> cfg] :
      cfg \in {c \in Configs : c.method = "get"} }
  \cup
  { [api |-> "put", url |-> "/items/1", data |-> "update", config |-> cfg] :
      cfg \in {c \in Configs : c.method = "post"} }

NoCall == [api |-> "none", url |-> "none", data |-> "none",
           config |-> NoConfig]

\* Bodies of 2xx responses: payload data plus a result flag.
Bodies == { [items |-> "list", result |-> TRUE],
            [items |-> "none", result |-> FALSE] }
NoBody == [items |-> "none", result |-> FALSE]

\* Error codes carried by the body of a non-2xx response ("NONE": no code).
ErrorCodes == {"TOKEN_EXPIRED", "OTHER", "NONE"}

\* The value the transport promise settled with, as the handlers see it:
\* kind "ok" is a 2xx response with its body, "http" an error with a
\* response and the code of its body, "noResponse" an error with a request
\* but no response, "setup" an error raised while the request was being set
\* up.  attempt numbers the request of the call that it answers.
NoResp == [kind |-> "none", code |-> "NONE", body |-> NoBody, attempt |-> 0]

\* What the resign POST settled with: 2xx with the new access token in
\* res.data.data ("ok"), or an error with a response ("http").
NoRefreshResp == [kind |-> "none", token |-> ""]

\* What the promise returned to the caller settled with.
\*   "data"      the unwrapped body
\*   "error"     a copy of the error object
\*   "undefined" resolved with undefined
\*   "TypeError" rejected
NoRet == [type |-> "pending", body |-> NoBody, err |-> NoResp]

VARIABLES
  accessToken,   \* the value behind accessTokenResolver
  refreshToken,  \* the value behind refreshTokenResolver
  pc,            \* per call: where it is suspended
  call,          \* per running call: the method called and its arguments
  config,        \* per running call: the config passed to resolver
  sent,          \* per running call: the request last handed to the transport
  resp,          \* per call: what the last request settled with
  refreshResp,   \* per call: what the resign POST being handled settled with
  fresh,         \* per call: its pending promise was created in this turn
  renewResult,   \* per call: result of the awaited renewAccessToken()
  ret,           \* per call: what the caller receives
  reqCount,      \* per call: requests handed to the transport
  postCount,     \* per call: POSTs to the resign endpoint
  renewCount,    \* per call: invocations of renewAccessToken
  renewedCount,  \* per call: renewals that persisted a token
  expiredCount,  \* per call: TOKEN_EXPIRED responses handled
  failCount,     \* per call: invocations of options.onTokenResignFail
  errLog,        \* per call: calls of logger.error
  infoLog,       \* per call: calls of logger.info
  lastRenewed    \* token of the resign POST whose .then ran last ("": none)

vars == <<accessToken, refreshToken, pc, call, config, sent, resp, refreshResp,
          fresh, renewResult, ret,
          reqCount, postCount, renewCount, renewedCount, expiredCount,
          failCount, errLog, infoLog, lastRenewed>>

stores == <<accessToken, refreshToken>>
counters == <<reqCount, postCount, renewCount, renewedCount, expiredCount,
              failCount, errLog, infoLog>>

\* Counters are observers.  They count exactly up to MaxExpired + 1, which
\* is as far as a call gets on MaxExpired answers of TOKEN_EXPIRED, and stop
\* there.
Inc(n) == IF n <= MaxExpired THEN n + 1 ELSE n

RECURSIVE Sum(_, _)
Sum(f, S) == IF S = {} THEN 0
             ELSE LET x == CHOOSE y \in S : TRUE IN f[x] + Sum(f, S \ {x})

\* ------------------------------------------------------- pure helpers

\* eqbClient, lines 129-168: the config that each method passes to resolver.
\* request passes its argument; the others spread the caller's config and
\* then set url, method and (post, put, patch) data.
ApiConfig(api, url, data, cfg) ==
  IF api = "request" THEN cfg
  ELSE IF api \in DataApis
         THEN [cfg EXCEPT !.url = url, !.data = data, !.method = api]
         ELSE [cfg EXCEPT !.url = url, !.method = api]

\* variant: the headers of the config are replaced, not extended
InjectHeaderOnly(cfg, token) ==
  [cfg EXCEPT !.headers = [access |-> token, accept |-> "none"]]

\* variant: the header is set before config.headers is spread over it
InjectHeaderCallerWins(cfg, token) ==
  [cfg EXCEPT !.headers.access =
     IF cfg.headers.access # "" THEN cfg.headers.access ELSE token]

\* resolver, lines 94-100: the config spread, then its headers spread, then
\* the access-token header set from accessTokenResolver.get().
InjectHeader(cfg, token) == [cfg EXCEPT !.headers.access = token]

\* variant: the result flag is set by the client, not taken from the body
UnwrapResultTrue(data) == [items |-> data.items, result |-> TRUE]

\* resolver, line 102: { ...result.data, result: result.data.result }
Unwrap(data) == [items |-> data.items, result |-> data.result]

\* resolver, line 110
IsTokenExpired(code) == code = "TOKEN_EXPIRED"

\* variant: the guard on the refresh token is missing
NoRefreshTokenNever(rt) == FALSE

\* renewAccessToken, line 73: `!refreshToken`
NoRefreshToken(rt) == rt = ""

\* variant: the token of the resign response is not written to the store
SetTokenKeepsOld(old, new) == old

\* variant: a stored token is not overwritten
SetTokenIfAbsent(old, new) == IF old = "" THEN new ELSE old

\* accessTokenResolver.set, lines 47-49 / 81: the value replaces what is stored
SetToken(old, new) == new

\* variant: resolver is called again whatever renewAccessToken reports
RetryAfterRenewAlways(result) == TRUE

\* variant: the error is returned whatever renewAccessToken reports
RetryAfterRenewNever(result) == FALSE

\* resolver, line 112: `!(await renewAccessToken()).result` chooses the branch
RetryAfterRenew(result) == result

\* ------------------------------------------------------------- state

\* The stores as the client finds them: a session (both tokens), a session
\* whose refresh token is gone, or no session at all.
Init ==
  /\ refreshToken \in RefreshTokens
  /\ accessToken \in IF refreshToken = "" THEN {"", "tok1"} ELSE {"tok1"}
  /\ pc = [s \in Sends |-> "idle"]
  /\ call = [s \in Sends |-> NoCall]
  /\ config = [s \in Sends |-> NoConfig]
  /\ sent = [s \in Sends |-> NoConfig]
  /\ resp = [s \in Sends |-> NoResp]
  /\ refreshResp = [s \in Sends |-> NoRefreshResp]
  /\ fresh = [s \in Sends |-> FALSE]
  /\ renewResult = [s \in Sends |-> FALSE]
  /\ ret = [s \in Sends |-> NoRet]
  /\ reqCount = [s \in Sends |-> 0]
  /\ postCount = [s \in Sends |-> 0]
  /\ renewCount = [s \in Sends |-> 0]
  /\ renewedCount = [s \in Sends |-> 0]
  /\ expiredCount = [s \in Sends |-> 0]
  /\ failCount = [s \in Sends |-> 0]
  /\ errLog = [s \in Sends |-> 0]
  /\ infoLog = [s \in Sends |-> 0]
  /\ lastRenewed = ""

\* ------------------------------------------------------ the event loop

\* Call s has taken a step.  While a continuation is waiting to run the
\* turn goes on, and a promise that s has just created cannot settle in it.
Turn(s) ==
  fresh' = [u \in Sends |->
              /\ \E v \in Sends : pc'[v] = "afterRenew"
              /\ IF u = s THEN pc'[s] \in {"waitRequest", "waitRefresh"}
                          ELSE fresh[u]]

\* the transport can settle the pending request of call s
RequestSettles(s) == pc[s] = "waitRequest" /\ ~fresh[s]

\* the transport can settle the pending resign POST of call s
RefreshSettles(s) == pc[s] = "waitRefresh" /\ ~fresh[s]

\* ---------------------------------------------------------- the client

\* The promise of call s settles: nothing refers to its arguments, its
\* config and its request any more.
Release(s) ==
  /\ call' = [call EXCEPT ![s] = NoCall]
  /\ config' = [config EXCEPT ![s] = NoConfig]
  /\ sent' = [sent EXCEPT ![s] = NoConfig]

\* resolver(config), lines 92-100, up to the point where the transport
\* promise is pending: read the token, build the request, hand it over.
IssueRequest(s, cfg) ==
  /\ sent' = [sent EXCEPT ![s] = InjectHeader(cfg, accessToken)]
  /\ reqCount' = [reqCount EXCEPT ![s] = Inc(@)]
  /\ pc' = [pc EXCEPT ![s] = "waitRequest"]

\* A method of eqbClient is called, lines 129-168: it builds the config
\* and calls resolver with it.
Call(s, c) ==
  /\ pc[s] = "idle"
  /\ call' = [call EXCEPT ![s] = c]
  /\ config' = [config EXCEPT ![s] = ApiConfig(c.api, c.url, c.data, c.config)]
  /\ IssueRequest(s, config'[s])
  /\ Turn(s)
  /\ UNCHANGED <<stores, resp, refreshResp, renewResult, ret, postCount,
                 renewCount, renewedCount, expiredCount, failCount, errLog,
                 infoLog, lastRenewed>>

\* variant: the .then handler logs the response through logger.error
RequestOkLogs(s, data) ==
  /\ RequestSettles(s)
  /\ resp' = [resp EXCEPT ![s] =
                [kind |-> "ok", code |-> "NONE", body |-> data,
                 attempt |-> reqCount[s]]]
  /\ ret' = [ret EXCEPT ![s] =
               [type |-> "data", body |-> Unwrap(data), err |-> NoResp]]
  /\ errLog' = [errLog EXCEPT ![s] = Inc(@)]
  /\ pc' = [pc EXCEPT ![s] = "resolved"]
  /\ Release(s)
  /\ Turn(s)
  /\ UNCHANGED <<stores, refreshResp, renewResult, reqCount, postCount,
                 renewCount, renewedCount, expiredCount, failCount, infoLog,
                 lastRenewed>>

\* resolver's .then handler, lines 101-103: the request settled with a 2xx
\* response whose body is data.
RequestOk(s, data) ==
  /\ RequestSettles(s)
  /\ resp' = [resp EXCEPT ![s] =
                [kind |-> "ok", code |-> "NONE", body |-> data,
                 attempt |-> reqCount[s]]]
  /\ ret' = [ret EXCEPT ![s] =
               [type |-> "data", body |-> Unwrap(data), err |-> NoResp]]
  /\ pc' = [pc EXCEPT ![s] = "resolved"]
  /\ Release(s)
  /\ Turn(s)
  /\ UNCHANGED <<stores, refreshResp, renewResult, counters, lastRenewed>>

\* resolver's .catch handler, lines 104-117: the request settled with an
\* error that carries a response, whose body has the given code.  Log it; on
\* TOKEN_EXPIRED log the retry and call renewAccessToken, which (lines
\* 72-77) returns at once without a refresh token and otherwise POSTs it to
\* the resign endpoint.  Any other code falls out of the handler, which then
\* returns undefined.
\* bounded: the backend answers TOKEN_EXPIRED MaxExpired times at most.
RequestHttpError(s, code, bounded) ==
  /\ RequestSettles(s)
  /\ (bounded /\ code = "TOKEN_EXPIRED") =>
       Sum(expiredCount, Sends) < MaxExpired
  /\ resp' = [resp EXCEPT ![s] =
                [kind |-> "http", code |-> code, body |-> NoBody,
                 attempt |-> reqCount[s]]]
  /\ errLog' = [errLog EXCEPT ![s] = Inc(@)]
  /\ IF IsTokenExpired(code)
       THEN /\ infoLog' = [infoLog EXCEPT ![s] = Inc(@)]
            /\ expiredCount' = [expiredCount EXCEPT ![s] = Inc(@)]
            /\ renewCount' = [renewCount EXCEPT ![s] = Inc(@)]
            /\ IF NoRefreshToken(refreshToken)
                 THEN /\ renewResult' = [renewResult EXCEPT ![s] = FALSE]
                      /\ pc' = [pc EXCEPT ![s] = "afterRenew"]
                      /\ UNCHANGED postCount
                 ELSE /\ postCount' = [postCount EXCEPT ![s] = Inc(@)]
                      /\ pc' = [pc EXCEPT ![s] = "waitRefresh"]
                      /\ UNCHANGED renewResult
            /\ UNCHANGED <<ret, call, config, sent>>
       ELSE /\ ret' = [ret EXCEPT ![s] =
                         [type |-> "undefined", body |-> NoBody, err |-> NoResp]]
            /\ pc' = [pc EXCEPT ![s] = "resolved"]
            /\ Release(s)
            /\ UNCHANGED <<infoLog, expiredCount, renewCount, postCount,
                           renewResult>>
  /\ Turn(s)
  /\ UNCHANGED <<stores, refreshResp, reqCount, renewedCount, failCount,
                 lastRenewed>>

\* resolver's .catch handler, lines 118-125: the request settled with an
\* error without a response (kind "noResponse": result.request is set; kind
\* "setup": it is not).  Log it; the handler returns undefined.
RequestFailed(s, kind) ==
  /\ RequestSettles(s)
  /\ resp' = [resp EXCEPT ![s] =
                [kind |-> kind, code |-> "NONE", body |-> NoBody,
                 attempt |-> reqCount[s]]]
  /\ errLog' = [errLog EXCEPT ![s] = Inc(@)]
  /\ ret' = [ret EXCEPT ![s] =
               [type |-> "undefined", body |-> NoBody, err |-> NoResp]]
  /\ pc' = [pc EXCEPT ![s] = "resolved"]
  /\ Release(s)
  /\ Turn(s)
  /\ UNCHANGED <<stores, refreshResp, renewResult, reqCount, postCount,
                 renewCount, renewedCount, expiredCount, failCount, infoLog,
                 lastRenewed>>

\* renewAccessToken's .then handler, lines 78-84: the resign POST settled
\* with a 2xx response that carries token in res.data.data; persist it and
\* return {result: true}.
RefreshOk(s, token) ==
  /\ RefreshSettles(s)
  /\ refreshResp' = [refreshResp EXCEPT ![s] =
                       [kind |-> "ok", token |-> token]]
  /\ accessToken' = SetToken(accessToken, token)
  /\ lastRenewed' = token
  /\ renewResult' = [renewResult EXCEPT ![s] = TRUE]
  /\ renewedCount' = [renewedCount EXCEPT ![s] = Inc(@)]
  /\ pc' = [pc EXCEPT ![s] = "afterRenew"]
  /\ Turn(s)
  /\ UNCHANGED <<refreshToken, call, config, sent, resp, ret, reqCount,
                 postCount, renewCount, expiredCount, failCount, errLog, infoLog>>

\* variant: the .catch handler of the resign POST clears the stored token
RefreshFailResponseClearsToken(s) ==
  /\ RefreshSettles(s)
  /\ refreshResp' = [refreshResp EXCEPT ![s] =
                       [kind |-> "http", token |-> ""]]
  /\ accessToken' = ""
  /\ errLog' = [errLog EXCEPT ![s] = Inc(@)]
  /\ failCount' = [failCount EXCEPT ![s] = Inc(@)]
  /\ renewResult' = [renewResult EXCEPT ![s] = FALSE]
  /\ pc' = [pc EXCEPT ![s] = "afterRenew"]
  /\ Turn(s)
  /\ UNCHANGED <<refreshToken, call, config, sent, resp, ret, reqCount,
                 postCount, renewCount, renewedCount, expiredCount, infoLog,
                 lastRenewed>>

\* variant: the .catch handler of the resign POST posts again instead of
\* returning {result: false}
RefreshFailResponseRetries(s) ==
  /\ RefreshSettles(s)
  /\ refreshResp' = [refreshResp EXCEPT ![s] =
                       [kind |-> "http", token |-> ""]]
  /\ errLog' = [errLog EXCEPT ![s] = Inc(@)]
  /\ postCount' = [postCount EXCEPT ![s] = Inc(@)]
  /\ pc' = pc
  /\ Turn(s)
  /\ UNCHANGED <<stores, call, config, sent, resp, ret, renewResult, reqCount,
                 renewCount, renewedCount, expiredCount, failCount, infoLog,
                 lastRenewed>>

\* renewAccessToken's .catch handler, lines 85-89: the resign POST settled
\* with an error that carries a response; log err.response.data, call
\* onTokenResignFail and return {result: false}.
RefreshFailResponse(s) ==
  /\ RefreshSettles(s)
  /\ refreshResp' = [refreshResp EXCEPT ![s] =
                       [kind |-> "http", token |-> ""]]
  /\ errLog' = [errLog EXCEPT ![s] = Inc(@)]
  /\ failCount' = [failCount EXCEPT ![s] = Inc(@)]
  /\ renewResult' = [renewResult EXCEPT ![s] = FALSE]
  /\ pc' = [pc EXCEPT ![s] = "afterRenew"]
  /\ Turn(s)
  /\ UNCHANGED <<stores, call, config, sent, resp, ret, reqCount, postCount,
                 renewCount, renewedCount, expiredCount, infoLog,
                 lastRenewed>>

\* renewAccessToken's .catch handler, line 86: the resign POST settled with
\* an error without a response.  err.response is undefined, so
\* err.response.data throws a TypeError before anything is logged.  The
\* promise of renewAccessToken rejects, the await at line 112 throws inside
\* resolver's .catch handler, and the promise the caller holds rejects.
RefreshFailNoResponse(s) ==
  /\ RefreshSettles(s)
  /\ ret' = [ret EXCEPT ![s] =
               [type |-> "TypeError", body |-> NoBody, err |-> NoResp]]
  /\ pc' = [pc EXCEPT ![s] = "rejected"]
  /\ Release(s)
  /\ Turn(s)
  /\ UNCHANGED <<stores, resp, refreshResp, renewResult, counters,
                 lastRenewed>>

\* the continuation of `await renewAccessToken()`, lines 112-116: without a
\* renewed token return a copy of the error, else call resolver(config).
AfterRenew(s) ==
  /\ pc[s] = "afterRenew"
  /\ IF RetryAfterRenew(renewResult[s])
       THEN /\ IssueRequest(s, config[s])
            /\ UNCHANGED <<ret, call, config>>
       ELSE /\ ret' = [ret EXCEPT ![s] =
                         [type |-> "error", body |-> NoBody, err |-> resp[s]]]
            /\ pc' = [pc EXCEPT ![s] = "resolved"]
            /\ Release(s)
            /\ UNCHANGED reqCount
  /\ refreshResp' = [refreshResp EXCEPT ![s] = NoRefreshResp]
  /\ Turn(s)
  /\ UNCHANGED <<stores, resp, renewResult, postCount, renewCount,
                 renewedCount, expiredCount, failCount, errLog, infoLog,
                 lastRenewed>>

\* the handlers of the request of call s, for every outcome
RequestHandled(s, bounded) ==
  \/ \E data \in Bodies : RequestOk(s, data)
  \/ \E code \in ErrorCodes : RequestHttpError(s, code, bounded)
  \/ \E kind \in {"noResponse", "setup"} : RequestFailed(s, kind)

\* the handlers of the resign POST of call s, for every outcome
RefreshHandled(s) ==
  \/ \E token \in FreshTokens : RefreshOk(s, token)
  \/ RefreshFailResponse(s)
  \/ RefreshFailNoResponse(s)

Next ==
  \E s \in Sends :
    \/ \E c \in Calls : Call(s, c)
    \/ \E data \in Bodies : RequestOk(s, data)
    \/ \E code \in ErrorCodes : RequestHttpError(s, code, TRUE)
    \/ \E kind \in {"noResponse", "setup"} : RequestFailed(s, kind)
    \/ \E token \in FreshTokens : RefreshOk(s, token)
    \/ RefreshFailResponse(s)
    \/ RefreshFailNoResponse(s)
    \/ AfterRenew(s)

Spec == Init /\ [][Next]_vars

\* The same program against a backend that may answer TOKEN_EXPIRED without
\* limit.  Every pending transport promise eventually settles and every
\* continuation eventually runs.
LiveNext ==
  \E s \in Sends :
    \/ \E c \in Calls : Call(s, c)
    \/ RequestHandled(s, FALSE)
    \/ RefreshHandled(s)
    \/ AfterRenew(s)

LiveSpec ==
  /\ Init
  /\ [][LiveNext]_vars
  /\ \A s \in Sends :
       /\ WF_vars(RequestHandled(s, FALSE))
       /\ WF_vars(RefreshHandled(s))
       /\ WF_vars(AfterRenew(s))

\* The access tokens that the backend has answered TOKEN_EXPIRED to and
\* whose calls are still renewing: the header of the failed request of every
\* call between that answer and its retry.
ExpiredTokens ==
  { sent[u].headers.access :
      u \in {v \in Sends : pc[v] \in {"waitRefresh", "afterRenew"}} }

\* The same program against a backend whose resign endpoint does not hand
\* out a token that it has answered TOKEN_EXPIRED to.
FreshNext ==
  \E s \in Sends :
    \/ \E c \in Calls : Call(s, c)
    \/ RequestHandled(s, TRUE)
    \/ \E token \in FreshTokens \ ExpiredTokens : RefreshOk(s, token)
    \/ RefreshFailResponse(s)
    \/ RefreshFailNoResponse(s)
    \/ AfterRenew(s)

FreshSpec == Init /\ [][FreshNext]_vars

TypeOK ==
  /\ accessToken \in AccessTokens
  /\ refreshToken \in RefreshTokens
  /\ pc \in [Sends -> {"idle", "waitRequest", "waitRefresh", "afterRenew",
                        "resolved", "rejected"}]
  /\ fresh \in [Sends -> BOOLEAN]
  /\ \A s \in Sends :
       fresh[s] => /\ pc[s] \in {"waitRequest", "waitRefresh"}
                   /\ \E u \in Sends : pc[u] = "afterRenew"
  /\ \A s \in Sends : reqCount[s] <= MaxExpired + 1

\* ------------------------------------------------------------ shorthands

Settled(s) == pc[s] \in {"resolved", "rejected"}

\* the caller received a copy of the error its last request settled with
GotOriginalError(s) ==
  ret[s] = [type |-> "error", body |-> NoBody, err |-> resp[s]]

\* the call is at the continuation that follows a successful renewal
RetryDue(s) == pc[s] = "afterRenew" /\ renewResult[s]

\* the last request of s was answered TOKEN_EXPIRED and the resign POST that
\* followed did not persist a token
RefreshFailed(s) ==
  /\ Settled(s)
  /\ resp[s].kind = "http"
  /\ resp[s].code = "TOKEN_EXPIRED"
  /\ postCount[s] > renewedCount[s]

\* --------------------------------------------------------------- claims

\* C1 as stated: after TOKEN_EXPIRED and a successful refresh exactly one
\* retry is issued, and the retry carries the token that this call's own
\* refresh persisted.
C1_RetryCarriesOwnRefreshedToken ==
  [][\A s \in Sends :
       (RetryDue(s) /\ pc'[s] # pc[s]) =>
         /\ pc'[s] = "waitRequest"
         /\ reqCount'[s] = reqCount[s] + 1
         /\ sent'[s] =
              [config[s] EXCEPT !.headers.access = refreshResp[s].token]]_vars

\* C1 amended: every successful refresh that follows a TOKEN_EXPIRED
\* response is followed by exactly one retry of the original config, and
\* the retry carries the access token that is in the store when it is
\* issued, which is the token persisted by the refresh that completed last
\* (the call's own, unless another call's refresh completed in between).
C1_RetryCarriesLastRefreshedToken ==
  /\ [](\A s \in Sends :
          pc[s] # "idle" =>
            reqCount[s] + (IF RetryDue(s) THEN 1 ELSE 0) = 1 + renewedCount[s])
  /\ [][\A s \in Sends :
          (RetryDue(s) /\ pc'[s] # pc[s]) =>
            /\ pc'[s] = "waitRequest"
            /\ reqCount'[s] = reqCount[s] + 1
            /\ sent'[s] = [config[s] EXCEPT !.headers.access = lastRenewed]
            /\ lastRenewed \in FreshTokens]_vars

\* C1 witness: a retry in flight that carries the token of its own refresh
C1_Witness ==
  \E s \in Sends :
    /\ pc[s] = "waitRequest"
    /\ reqCount[s] = 2
    /\ resp[s].code = "TOKEN_EXPIRED"
    /\ renewedCount[s] = 1
    /\ sent[s].headers.access = lastRenewed
    /\ sent[s].headers.access \in FreshTokens

\* C2 as stated: one call issues at most two transport requests and at most
\* one refresh, whatever the backend answers.
C2_AtMostOneRetry ==
  \A s \in Sends : reqCount[s] <= 2 /\ postCount[s] <= 1 /\ renewCount[s] <= 1

\* C3 as stated: when the refresh that follows TOKEN_EXPIRED fails, the
\* caller receives the original error of the request and onTokenResignFail
\* has been invoked exactly once.
C3_RefreshFailureSurfacesOriginalError ==
  \A s \in Sends :
    RefreshFailed(s) => (GotOriginalError(s) /\ failCount[s] = 1)

\* C4 as stated: an error response without the TOKEN_EXPIRED code never
\* invokes renewAccessToken and the caller receives the original error.
C4_OtherErrorSurfacedUnchanged ==
  \A s \in Sends :
    (Settled(s) /\ resp[s].kind = "http" /\ resp[s].code # "TOKEN_EXPIRED") =>
      /\ renewCount[s] = expiredCount[s]
      /\ pc[s] = "resolved"
      /\ GotOriginalError(s)

\* C5 as stated: no call of the public API ends in a rejected promise.
C5_NeverRejects ==
  \A s \in Sends : pc[s] # "rejected" /\ ret[s].type # "TypeError"

\* C6: whenever a request (original or retry) is handed to the transport,
\* its access-token header is the value the store holds at that moment.
C6_HeaderIsStoredToken ==
  [][\A s \in Sends :
       (pc'[s] = "waitRequest" /\ pc[s] # "waitRequest") =>
         /\ sent'[s].headers.access = accessToken
         /\ accessToken' = accessToken]_vars

\* C6 witness: a retry in flight for a config that brought its own
\* access-token header; the retry carries the stored token, which is neither
\* the caller's value nor the token the first request carried.
C6_Witness ==
  \E s \in Sends :
    /\ pc[s] = "waitRequest"
    /\ reqCount[s] = 2
    /\ config[s].headers.access = CallerToken
    /\ sent[s].headers.access = accessToken
    /\ accessToken \in FreshTokens

\* C7: with an empty or null refresh token renewAccessToken returns
\* {result: false} and no POST to the resign endpoint is made.
C7_NoRefreshTokenNoPost ==
  [][\A s \in Sends :
       (renewCount'[s] # renewCount[s] /\ refreshToken = "") =>
         /\ postCount' = postCount
         /\ pc'[s] = "afterRenew"
         /\ renewResult'[s] = FALSE]_vars

\* C7 witness: renewAccessToken has returned without a refresh token
C7_Witness ==
  \E s \in Sends :
    /\ refreshToken = ""
    /\ pc[s] = "afterRenew"
    /\ renewCount[s] = 1
    /\ postCount[s] = 0
    /\ ~renewResult[s]

\* C8 as stated: a request that fails without a response is logged, does
\* not invoke renewAccessToken, and its error is what the caller receives.
C8_TransportErrorSurfacedUnchanged ==
  \A s \in Sends :
    (Settled(s) /\ resp[s].kind \in {"noResponse", "setup"}) =>
      /\ errLog[s] >= 1
      /\ renewCount[s] = expiredCount[s]
      /\ GotOriginalError(s)

\* C9: every TOKEN_EXPIRED response makes its call invoke renewAccessToken
\* and (given a refresh token) POST to the resign endpoint on its own, also
\* while other calls have a refresh in flight; every successful refresh
\* writes the store, so the store holds the token of the refresh that
\* completed last.
C9_RefreshPerCallLastWriteWins ==
  /\ \A s \in Sends :
       /\ renewCount[s] = expiredCount[s]
       /\ refreshToken # "" => postCount[s] = expiredCount[s]
       /\ pc[s] = "waitRefresh" => postCount[s] > renewedCount[s]
  /\ lastRenewed # "" => accessToken = lastRenewed
  /\ lastRenewed = "" => \A s \in Sends : renewedCount[s] = 0

\* C9 witness: two calls were both answered TOKEN_EXPIRED, each made its own
\* POST, both refreshes succeeded with different tokens, and the store
\* holds the one written last.
C9_Witness ==
  \E s, u \in Sends :
    /\ s # u
    /\ RetryDue(s) /\ RetryDue(u)
    /\ postCount[s] = 1 /\ postCount[u] = 1
    /\ refreshResp[s].token # refreshResp[u].token
    /\ lastRenewed = refreshResp[u].token
    /\ accessToken = refreshResp[u].token

\* C10 as stated: every call that was made eventually settles, given that
\* every transport request and every refresh POST completes.
C10_EverySendSettles ==
  \A s \in Sends : (pc[s] # "idle") ~> Settled(s)

\* C11: a renewal whose resign POST succeeds writes the token of that
\* response to the access-token store and returns {result: true}; a renewal
\* that returns {result: false} leaves the access-token store as it was.
C11_RenewPersistsOrLeavesStore ==
  [][\A s \in Sends :
       /\ (pc[s] = "waitRefresh" /\ pc'[s] # pc[s]
             /\ refreshResp'[s].kind = "ok") =>
            /\ refreshToken # ""
            /\ accessToken' = refreshResp'[s].token
            /\ pc'[s] = "afterRenew"
            /\ renewResult'[s]
       /\ (pc[s] # "afterRenew" /\ pc'[s] = "afterRenew"
             /\ ~renewResult'[s]) =>
            accessToken' = accessToken]_vars

\* a renewal has just persisted a token that differs from the one the failed
\* request carried
C11_Witness ==
  \E s \in Sends :
    /\ pc[s] = "afterRenew"
    /\ renewResult[s]
    /\ refreshResp[s].kind = "ok"
    /\ refreshToken # ""
    /\ accessToken = refreshResp[s].token
    /\ sent[s].headers.access # accessToken

\* C12: every invocation of renewAccessToken issues at most one POST to the
\* resign endpoint: a POST is issued only in the step that invokes the
\* renewal, one per invocation, and a POST that has settled is never
\* issued again.
C12_OnePostPerRenew ==
  /\ [](\A s \in Sends : postCount[s] <= renewCount[s])
  /\ [][\A s \in Sends :
          postCount'[s] # postCount[s] =>
            /\ postCount'[s] = postCount[s] + 1
            /\ renewCount'[s] = renewCount[s] + 1
            /\ pc[s] = "waitRequest"
            /\ pc'[s] = "waitRefresh"]_vars

\* the one resign POST of a renewal has failed and the renewal has returned
\* without posting again
C12_Witness ==
  \E s \in Sends :
    /\ pc[s] = "afterRenew"
    /\ refreshResp[s].kind = "http"
    /\ ~renewResult[s]
    /\ renewCount[s] = 1
    /\ postCount[s] = 1

\* C13: whenever a request is handed to the transport, the first time or as
\* a retry, it has the method, the url and the body of the call (those of
\* the method called and its arguments, else those of the caller's config)
\* and the caller's other headers, and its access-token header is the
\* stored token whatever the caller's config has under that key; a retry
\* does not change the arguments of the call.
C13_DescriptorPassedThrough ==
  [][\A s \in Sends :
       (pc'[s] = "waitRequest" /\ pc[s] # "waitRequest") =>
         LET c == call'[s] IN
           /\ pc[s] # "idle" => c = call[s]
           /\ sent'[s].method =
                IF c.api = "request" THEN c.config.method ELSE c.api
           /\ sent'[s].url =
                IF c.api = "request" THEN c.config.url ELSE c.url
           /\ sent'[s].data =
                IF c.api \in DataApis THEN c.data ELSE c.config.data
           /\ sent'[s].headers.accept = c.config.headers.accept
           /\ sent'[s].headers.access = accessToken
           /\ DOMAIN sent'[s].headers = DOMAIN c.config.headers]_vars

\* retries in flight: one of a put whose config named another method and
\* body and brought its own access-token header, one of a delete whose
\* config carries another header
C13_Witness ==
  \E s, u \in Sends :
    /\ pc[s] = "waitRequest" /\ reqCount[s] = 2
    /\ call[s].api = "put" /\ call[s].config.method = "post"
    /\ call[s].config.headers.access = CallerToken
    /\ sent[s].method = "put" /\ sent[s].data = "update"
    /\ sent[s].headers.access \in FreshTokens
    /\ pc[u] = "waitRequest" /\ reqCount[u] = 2
    /\ call[u].api = "delete"
    /\ sent[u].headers.accept = "json"

\* C14: the handler of every answer that carries a non-2xx response, to the
\* first request or to a retry, calls logger.error once, in the step in
\* which any renewal for that response is invoked and not after it; the
\* handler of a 2xx response does not call it.  Over a whole call the calls
\* of logger.error are one per TOKEN_EXPIRED response, one for a last
\* response or failure of another kind, and one per failed resign POST,
\* so no response is logged twice.
C14_ErrorResponsesLoggedOnce ==
  /\ [][\A s \in Sends :
          /\ (pc[s] = "waitRequest" /\ pc'[s] # pc[s]) =>
               /\ resp'[s].kind = "http" => errLog'[s] = errLog[s] + 1
               /\ resp'[s].kind = "ok" => errLog'[s] = errLog[s]
          /\ renewCount'[s] # renewCount[s] =>
               /\ resp'[s].kind = "http"
               /\ errLog'[s] = errLog[s] + 1]_vars
  /\ [](\A s \in Sends :
          errLog[s] = expiredCount[s] + failCount[s]
                      + (IF \/ resp[s].kind \in {"noResponse", "setup"}
                            \/ /\ resp[s].kind = "http"
                               /\ resp[s].code # "TOKEN_EXPIRED"
                           THEN 1 ELSE 0))

\* one call has logged its TOKEN_EXPIRED response once and waits for the
\* resign POST; another has logged the TOKEN_EXPIRED response to its first
\* request and nothing for the 2xx response to its retry
C14_Witness ==
  \E s, u \in Sends :
    /\ pc[s] = "waitRefresh"
    /\ resp[s].kind = "http" /\ resp[s].code = "TOKEN_EXPIRED"
    /\ errLog[s] = 1 /\ postCount[s] = 1
    /\ pc[u] = "resolved"
    /\ resp[u].kind = "ok" /\ resp[u].attempt = 2
    /\ errLog[u] = 1

\* C15: the handler of a 2xx response resolves the call with the fields of
\* the body and the result flag of the body, and invokes neither
\* renewAccessToken (no resign POST, no write of the token store) nor
\* onTokenResignFail.
C15_SuccessReturnsBody ==
  [][\A s \in Sends :
       (pc[s] = "waitRequest" /\ pc'[s] # pc[s] /\ resp'[s].kind = "ok") =>
         /\ pc'[s] = "resolved"
         /\ ret'[s].type = "data"
         /\ ret'[s].body.items = resp'[s].body.items
         /\ ret'[s].body.result = resp'[s].body.result
         /\ renewCount'[s] = renewCount[s]
         /\ postCount'[s] = postCount[s]
         /\ failCount'[s] = failCount[s]
         /\ accessToken' = accessToken]_vars

\* two calls resolved on a 2xx response, one with a body whose flag is
\* true, one with a body whose flag is false
C15_Witness ==
  \E s, u \in Sends :
    /\ pc[s] = "resolved" /\ resp[s].kind = "ok"
    /\ resp[s].body = [items |-> "list", result |-> TRUE]
    /\ ret[s].body = resp[s].body
    /\ pc[u] = "resolved" /\ resp[u].kind = "ok"
    /\ resp[u].body = [items |-> "none", result |-> FALSE]
    /\ ret[u].type = "data" /\ ret[u].body = resp[u].body

\* C16: no step changes the refresh-token store, so it keeps its initial
\* value; a step changes the access-token store only if it is the handler
\* of a successful resign POST, and then to the token of that response.
C16_StoresWrittenOnlyByRefresh ==
  [][/\ refreshToken' = refreshToken
     /\ accessToken' # accessToken =>
          \E s \in Sends :
            /\ pc[s] = "waitRefresh"
            /\ pc'[s] = "afterRenew"
            /\ refreshResp'[s].kind = "ok"
            /\ renewResult'[s]
            /\ renewedCount'[s] = renewedCount[s] + 1
            /\ accessToken' = refreshResp'[s].token]_vars

\* every call has settled, one after a renewal that replaced the stored
\* token and one after a failed resign POST; the refresh token is in place
C16_Witness ==
  /\ \A s \in Sends : Settled(s)
  /\ \E s, u \in Sends :
       /\ renewedCount[s] = 1
       /\ failCount[u] = 1
  /\ accessToken \in FreshTokens
  /\ accessToken = lastRenewed
  /\ refreshToken = "rt"

\* C17: with no refresh token stored, a call never hands a second request
\* to the transport, never posts to the resign endpoint and never invokes
\* onTokenResignFail, and a call whose request was answered TOKEN_EXPIRED
\* resolves with a copy of that error.
C17_NoRefreshTokenSurfacesError ==
  \A s \in Sends :
    refreshToken = "" =>
      /\ reqCount[s] <= 1
      /\ postCount[s] = 0
      /\ failCount[s] = 0
      /\ (resp[s].kind = "http" /\ resp[s].code = "TOKEN_EXPIRED") =>
           /\ renewCount[s] = 1
           /\ pc[s] \in {"afterRenew", "resolved"}
           /\ pc[s] = "afterRenew" => ~renewResult[s]
           /\ pc[s] = "resolved" => GotOriginalError(s)

\* a call answered TOKEN_EXPIRED with no refresh token stored has resolved
\* with the error, without a retry and without the failure callback
C17_Witness ==
  \E s \in Sends :
    /\ refreshToken = ""
    /\ pc[s] = "resolved"
    /\ resp[s].kind = "http" /\ resp[s].code = "TOKEN_EXPIRED"
    /\ ret[s].type = "error" /\ ret[s].err = resp[s]
    /\ reqCount[s] = 1
    /\ failCount[s] = 0

\* C18: against a backend that does not hand out a token it has answered
\* TOKEN_EXPIRED to, in every interleaving of the calls a retry is handed to
\* the transport only by the continuation of a renewal of the same call
\* whose resign POST succeeded and whose token was written to the store; the
\* retry carries the token written last, by this call's renewal or by
\* another's, and never the token its failed request carried.
C18_RetryNeverCarriesExpiredToken ==
  [][\A s \in Sends :
       (pc[s] \notin {"idle", "waitRequest"} /\ pc'[s] = "waitRequest") =>
         /\ pc[s] = "afterRenew"
         /\ renewResult[s]
         /\ refreshResp[s].kind = "ok"
         /\ refreshResp[s].token \in FreshTokens
         /\ renewedCount[s] = reqCount[s]
         /\ sent'[s].headers.access = lastRenewed
         /\ sent'[s].headers.access # sent[s].headers.access]_vars

\* call s has retried with the token that the renewal of call u wrote to
\* the store, while u has not yet run its own continuation
C18_Witness ==
  \E s, u \in Sends :
    /\ s # u
    /\ pc[s] = "waitRequest" /\ reqCount[s] = 2 /\ renewedCount[s] = 1
    /\ RetryDue(u)
    /\ lastRenewed = refreshResp[u].token
    /\ sent[s].headers.access = refreshResp[u].token
    /\ sent[s].headers.access # sent[u].headers.access

====
